---- MODULE Spec2Model ----
(***************************************************************************)
(* State-machine model of the NBA ingest pipeline (src/nba/ingest) over    *)
(* the relational store of src/nba/db/models.py, together with the fetch   *)
(* clients' retry loops (src/nba/sources).                                 *)
(*                                                                         *)
(* Conventions.  A Python value that may be None is held as a sequence of  *)
(* length at most one: <<>> is None and <<v>> is the value v.  A fetched   *)
(* record (a Python dict) is a function whose DOMAIN is the set of keys    *)
(* present in the dict.  A table is the sequence of its committed rows in  *)
(* insertion order; the surrogate key of a row is its position.            *)
(***************************************************************************)
EXTENDS Integers, Sequences, FiniteSets, TLC

VARIABLES teams, players, games, team_stats, player_stats, last, fetch, command

vars == <<teams, players, games, team_stats, player_stats, last, fetch, command>>

store == <<teams, players, games, team_stats, player_stats>>

\* ------------------------------------------------------------------ bounds

\* Longest fetched batch.
MaxBatch == 2

\* ------------------------------------------------------------------ values

None == <<>>

Some(v) == <<v>>

\* dict.get(key): the value under the key, None when the key is absent.
Get(rec, key) == IF key \in DOMAIN rec THEN rec[key] ELSE None

\* Python truthiness of an optional string: None and "" are falsy.
TruthyStr(opt) == opt # None /\ opt[1] # ""

\* Python truthiness of an optional number: None and 0 are falsy.
TruthyNum(opt) == opt # None /\ opt[1] # 0

\* A dict entry: absent when the choice is <<>>, else key -> choice[1].
Entry(key, choice) == IF choice = <<>> THEN <<>> ELSE key :> choice[1]

\* All sequences over S of length at most n.
SeqsUpTo(S, n) == UNION {[1..k -> S] : k \in 0..n}

\* Query.first(): the position of the first matching row, 0 for no row.
First(S) == IF S = {} THEN 0 ELSE CHOOSE i \in S : \A j \in S : i <= j

\* ------------------------------------------------------------------ teams

TeamIds == {"1", "2"}

\* Identifiers a source supplies as a Python int rather than a str.
IntIds == {"int:1", "int:2"}

\* An identifier kept exactly as the record carries it.
AsSupplied(id) == id

\* The text of an identifier: what str() returns, and what the TEXT affinity
\* of a String column makes of a bound or stored integer in the SQLite store.
Text(id) == CASE id = "int:1" -> "1" [] id = "int:2" -> "2" [] OTHER -> id

Abbreviations == {"LAL", "BOS"}

Cities == {"Los Angeles"}

\* Records a team client can hand to ingest_teams; the keys "name",
\* "abbreviation" and "city" stand for the seven keys of the client's dict
\* ("state", "conference" and "division" are handled exactly as "city").
\* Each argument is a set of choices: <<>> leaves the key out, <<v>> sets it.
TeamRecordsOver(tids, abbrs, cities) ==
    { Entry("team_id", t) @@ Entry("name", <<"Team">>) @@ Entry("abbreviation", a)
        @@ Entry("city", c) : t \in tids, a \in abbrs, c \in cities }

Present(S) == {<<x>> : x \in S}

TeamBatches ==
    SeqsUpTo(TeamRecordsOver({<<>>} \cup Present(TeamIds), {<<>>} \cup Present(Abbreviations),
                             {<<>>, <<None>>} \cup Present(Present(Cities))), MaxBatch)

\* hasattr(existing_team, key) for the keys a record may carry.
TeamAttrs == {"team_id", "name", "abbreviation", "city"}

\* A Team table whose abbreviation column is not unique.
TeamsUniqueByTeamId(tbl) ==
    \A i, j \in 1..Len(tbl) : i # j => tbl[i].team_id # tbl[j].team_id

\* Team.team_id and Team.abbreviation are unique=True.
TeamsUnique(tbl) ==
    \A i, j \in 1..Len(tbl) :
        i # j => /\ tbl[i].team_id # tbl[j].team_id
                 /\ tbl[i].abbreviation # tbl[j].abbreviation

\* session.query(Team).filter(Team.team_id == team_id).first()
TeamByTeamId(tbl, team_id) == First({i \in 1..Len(tbl) : tbl[i].team_id = Text(team_id)})

\* The session of one invocation: work holds the loaded rows with their
\* in-memory changes (the identity map), pending the objects given to
\* session.add, raised the exception that ended the loop ("" for none),
\* touched the list the ingest returns (ingested_teams and its likes), seen
\* the number of records the loop has processed.
NewSession(tbl) ==
    [work |-> tbl, pending |-> <<>>, raised |-> "", touched |-> <<>>, seen |-> 0]

\* The for loop moves on to the next record: seen counts the records whose
\* loop body ran to its end.
Seen(s) == IF s.raised # "" THEN s ELSE [s EXCEPT !.seen = @ + 1]

\* Entries of that list: the loaded row at position i, the j-th added object.
Loaded(i) == [kind |-> "loaded", at |-> i]

Added(j) == [kind |-> "added", at |-> j]

\* A loop that forgets the append.
Untouched(s, entry) == s

\* ingested.append(entity)
Touch(s, entry) == [s EXCEPT !.touched = Append(@, entry)]

\* ingested.append(new) after session.add(new)
Add(s, new) == Touch([s EXCEPT !.pending = Append(@, new)], Added(Len(s.pending) + 1))

\* ingest_teams, the body of the for loop for one record.
TeamStep(tbl, s, rec) ==
    IF "team_id" \notin DOMAIN rec THEN [s EXCEPT !.raised = "KeyError"]
    ELSE
      LET i == TeamByTeamId(tbl, rec["team_id"])
      IN IF i # 0
         THEN Touch([s EXCEPT !.work[i] =
                        [k \in DOMAIN @ |-> IF k \in TeamAttrs /\ k \in DOMAIN rec
                                            THEN rec[k] ELSE @[k]]], Loaded(i))
         ELSE IF {"name", "abbreviation"} \subseteq DOMAIN rec
              THEN Add(s, [id |-> 0, team_id |-> rec["team_id"], name |-> rec["name"],
                           abbreviation |-> rec["abbreviation"], city |-> Get(rec, "city")])
              ELSE [s EXCEPT !.raised = "KeyError"]

RECURSIVE TeamLoop(_, _, _)
TeamLoop(tbl, s, batch) ==
    IF batch = <<>> \/ s.raised # "" THEN s
    ELSE TeamLoop(tbl, Seen(TeamStep(tbl, s, Head(batch))), Tail(batch))

\* ------------------------------------------------------------------ players

PlayerIds == {"1", "2"}

\* Names are strings, held as sequences of characters.
LeBronJames == <<"L", " ", "J">>

Madonna == <<"M">>

\* Raw numbers of a payload in Python notation: "0" and "220" are ints,
\* "'x'" is a string that is no number.
RawNumbers == {"0", "7", "220", "'x'"}

\* int(value): <<n>>, or <<>> when int() raises ValueError or TypeError.
IntOf(raw) ==
    CASE raw = "0" -> <<0>> [] raw = "7" -> <<7>> [] raw = "220" -> <<220>> [] OTHER -> <<>>

\* Truthiness of a raw number: the int 0 is falsy, every non-empty string truthy.
TruthyRaw(opt) == opt # None /\ opt[1] # "0"

\* str.split(" ", 1): the parts before and after the first space.
Split(name) ==
    LET sp == {i \in 1..Len(name) : name[i] = " "}
        i == First(sp)
    IN IF i = 0 THEN <<name>>
       ELSE <<SubSeq(name, 1, i - 1), SubSeq(name, i + 1, Len(name))>>

FirstName(name) == Split(name)[1]

LastName(name) == IF Len(Split(name)) > 1 THEN Split(name)[2] ELSE <<>>

\* Records a player client can hand to ingest_players ("position" stands for
\* "height" and "jersey_number" too, which are handled exactly as it is).
PlayerRecordsOver(pids, names, positions, weights, actives, tids) ==
    { Entry("player_id", p) @@ Entry("name", n) @@ Entry("position", po) @@ Entry("weight", w)
        @@ Entry("is_active", a) @@ Entry("team_id", t) :
        p \in pids, n \in names, po \in positions, w \in weights, a \in actives, t \in tids }

\* Player.player_id is unique=True.
PlayersUnique(tbl) ==
    \A i, j \in 1..Len(tbl) : i # j => tbl[i].player_id # tbl[j].player_id

\* session.query(Player).filter(Player.player_id == player_id).first()
PlayerByPlayerId(tbl, player_id) ==
    First({i \in 1..Len(tbl) : tbl[i].player_id = Text(player_id)})

\* create_player_from_data: the new Player, or <<>> when the function returns
\* None (an exception inside it is caught).
create_player_from_data(rec, team_tbl) ==
    LET t == IF TruthyStr(Get(rec, "team_id"))
             THEN TeamByTeamId(team_tbl, rec["team_id"][1])
             ELSE 0
        weight == IF TruthyRaw(Get(rec, "weight")) THEN IntOf(rec["weight"][1]) ELSE None
        full_name == IF "name" \in DOMAIN rec THEN rec["name"] ELSE Some(<<>>)
    IN IF full_name = None THEN <<>>
       ELSE << [id |-> 0,
                player_id |-> IF "player_id" \notin DOMAIN rec THEN ""
                              ELSE IF rec["player_id"] = None THEN "None"
                              ELSE Text(rec["player_id"][1]),
                name |-> full_name[1],
                first_name |-> FirstName(full_name[1]),
                last_name |-> LastName(full_name[1]),
                team_id |-> IF t = 0 THEN None ELSE Some(team_tbl[t].id),
                position |-> Get(rec, "position"),
                weight |-> weight,
                is_active |-> IF "is_active" \in DOMAIN rec THEN rec["is_active"] ELSE TRUE] >>

\* An update that takes the team reference off the player.
update_player_without_team(player, rec) == [player EXCEPT !.team_id = None]

\* update_player_data.
update_player_data(player, rec) ==
    LET named == Get(rec, "name") # None /\ Get(rec, "name")[1] # <<>>
        parsed == IF TruthyRaw(Get(rec, "weight")) THEN IntOf(rec["weight"][1]) ELSE None
    IN [player EXCEPT
          !.name = IF named THEN rec["name"][1] ELSE @,
          !.first_name = IF named THEN FirstName(rec["name"][1]) ELSE @,
          !.last_name = IF named THEN LastName(rec["name"][1]) ELSE @,
          !.position = IF TruthyStr(Get(rec, "position")) THEN rec["position"] ELSE @,
          !.weight = IF parsed # None THEN parsed ELSE @,
          !.is_active = IF "is_active" \in DOMAIN rec THEN rec["is_active"] ELSE @]

\* ingest_players, the body of the for loop for one record.
PlayerStep(tbl, team_tbl, s, rec) ==
    LET pid == Get(rec, "player_id")
        i == IF pid = None THEN 0
             ELSE PlayerByPlayerId(tbl, pid[1])
        new == create_player_from_data(rec, team_tbl)
    IN IF i # 0 THEN Touch([s EXCEPT !.work[i] = update_player_data(@, rec)], Loaded(i))
       ELSE IF new # <<>> THEN Add(s, new[1])
       ELSE s

RECURSIVE PlayerLoop(_, _, _, _)
PlayerLoop(tbl, team_tbl, s, batch) ==
    IF batch = <<>> \/ s.raised # "" THEN s
    ELSE PlayerLoop(tbl, team_tbl, Seen(PlayerStep(tbl, team_tbl, s, Head(batch))), Tail(batch))

\* ------------------------------------------------------------------ games

GameIds == {"1", "2"}

\* Largest score of a payload.
MaxScore == 1

Scores == 0..MaxScore

\* The seasons the games and stats commands are run for, and the first one.
Seasons == 2023..2024

Season == CHOOSE y \in Seasons : \A z \in Seasons : y <= z

SeasonType == "Regular Season"

\* A game date in a payload: an ISO string, or a datetime.date object.
IsoString == "'2024-01-15'"

DateObject == "date(2024, 1, 15)"

\* str.upper() on the abbreviations of the model.
Upper(abbr) == CASE abbr = "lal" -> "LAL" [] abbr = "bos" -> "BOS" [] OTHER -> abbr

\* A row of the scoreboard data frame: GAME_ID, HOME_TEAM_SCORE and
\* VISITOR_TEAM_SCORE (<<>> is NaN), the two abbreviations.
ScoreboardRowsOver(gids, home_scores, away_scores) ==
    { [GAME_ID |-> g, HOME_TEAM_SCORE |-> h, VISITOR_TEAM_SCORE |-> v,
       HOME_TEAM_ABBREVIATION |-> "LAL", VISITOR_TEAM_ABBREVIATION |-> "BOS",
       GAME_DATE_EST |-> DateObject] : g \in gids, h \in home_scores, v \in away_scores }

\* A client whose dict names the home team's row as well.
game_dict_with_reference(row) ==
    [game_id |-> row.GAME_ID, home_team_abbr |-> row.HOME_TEAM_ABBREVIATION,
     away_team_abbr |-> row.VISITOR_TEAM_ABBREVIATION, home_team_id |-> Some(1)]

\* NBAAPIClientFixed.get_games, the dict built for one row of the data frame.
game_dict(row) ==
    LET home_score == IF row.HOME_TEAM_SCORE # None THEN row.HOME_TEAM_SCORE[1] ELSE 0
        away_score == IF row.VISITOR_TEAM_SCORE # None THEN row.VISITOR_TEAM_SCORE[1] ELSE 0
    IN [game_id |-> row.GAME_ID,
        game_date |-> Some(row.GAME_DATE_EST),
        season |-> Season,
        season_type |-> SeasonType,
        home_team_abbr |-> row.HOME_TEAM_ABBREVIATION,
        away_team_abbr |-> row.VISITOR_TEAM_ABBREVIATION,
        home_score |-> Some(home_score),
        away_score |-> Some(away_score),
        home_win |-> IF row.HOME_TEAM_SCORE # None /\ row.VISITOR_TEAM_SCORE # None
                     THEN Some(home_score > away_score) ELSE Some(FALSE)]

\* NBAAPIClientFixed.get_games on a data frame that was fetched.
get_games(rows) == [i \in 1..Len(rows) |-> game_dict(rows[i])]

\* Records of the game contract with keys left out.
GameRecordsOver(gids, home_abbrs, dates, home_scores, away_scores, home_wins) ==
    { Entry("game_id", g) @@ Entry("home_team_abbr", ha) @@ Entry("away_team_abbr", <<"BOS">>)
        @@ Entry("game_date", d) @@ Entry("home_score", h) @@ Entry("away_score", v)
        @@ Entry("home_win", w) :
        g \in gids, ha \in home_abbrs, d \in dates, h \in home_scores, v \in away_scores,
        w \in home_wins }

\* hasattr(existing_game, key): "game_id" is no attribute of Game.
GameAttrs ==
    {"id", "home_team_id", "away_team_id", "game_date", "season", "season_type",
     "home_team_abbr", "away_team_abbr", "home_score", "away_score", "home_win"}

\* session.query(Game).filter(Game.id == game_id).first()
GameById(tbl, game_id) == First({i \in 1..Len(tbl) : tbl[i].id = game_id})

\* A lookup that takes the first Team whatever the abbreviation.
get_first_team(team_tbl, abbr) == IF team_tbl = <<>> THEN 0 ELSE 1

\* get_team_by_abbreviation of games_ingest.
get_team_by_abbreviation(team_tbl, abbr) ==
    First({i \in 1..Len(team_tbl) : team_tbl[i].abbreviation = Upper(abbr)})

\* Game.id is the primary key; the Date column of the SQLite store takes None
\* and date objects only.
GamesViolation(tbl) ==
    IF \E i \in 1..Len(tbl) : tbl[i].game_date \notin {None, Some(DateObject)}
    THEN "StatementError"
    ELSE IF \E i, j \in 1..Len(tbl) : i # j /\ tbl[i].id = tbl[j].id THEN "IntegrityError"
    ELSE ""

\* ingest_games, the create path: the new Game.
NewGame(team_tbl, rec) ==
    LET home_team == get_team_by_abbreviation(team_tbl, rec["home_team_abbr"])
        away_team == get_team_by_abbreviation(team_tbl, rec["away_team_abbr"])
        game_date == IF Get(rec, "game_date") = None THEN None ELSE Some(DateObject)
        home_win == IF Get(rec, "home_score") # None /\ Get(rec, "away_score") # None
                    THEN Some(rec["home_score"][1] > rec["away_score"][1]) ELSE None
    IN [id |-> rec["game_id"],
        game_date |-> game_date,
        season |-> Season,
        season_type |-> SeasonType,
        home_team_id |-> IF home_team = 0 THEN None ELSE Some(team_tbl[home_team].id),
        away_team_id |-> IF away_team = 0 THEN None ELSE Some(team_tbl[away_team].id),
        home_team_abbr |-> rec["home_team_abbr"],
        away_team_abbr |-> rec["away_team_abbr"],
        home_score |-> Get(rec, "home_score"),
        away_score |-> Get(rec, "away_score"),
        home_win |-> home_win]

\* ingest_games, the body of the for loop for one record.
GameStep(tbl, team_tbl, s, rec) ==
    IF "game_id" \notin DOMAIN rec THEN [s EXCEPT !.raised = "KeyError"]
    ELSE
      LET i == GameById(tbl, rec["game_id"])
      IN IF i # 0
         THEN Touch([s EXCEPT !.work[i] =
                        [k \in DOMAIN @ |-> IF k \in GameAttrs /\ k \in DOMAIN rec
                                            THEN rec[k] ELSE @[k]]], Loaded(i))
         ELSE IF {"home_team_abbr", "away_team_abbr"} \subseteq DOMAIN rec
              THEN Add(s, NewGame(team_tbl, rec))
              ELSE [s EXCEPT !.raised = "KeyError"]

RECURSIVE GameLoop(_, _, _, _)
GameLoop(tbl, team_tbl, s, batch) ==
    IF batch = <<>> \/ s.raised # "" THEN s
    ELSE GameLoop(tbl, team_tbl, Seen(GameStep(tbl, team_tbl, s, Head(batch))), Tail(batch))

\* ------------------------------------------------------------------ stats

\* TEAM_ID and PLAYER_ID of a stats payload are JSON numbers.
StatIds == {1, 2}

\* str(value) of an identifier: "" for a key left out, "None" for None.
Str(opt) == IF opt = None THEN "None" ELSE IF opt[1] = 1 THEN "1" ELSE "2"

StrOrEmpty(rec, key) == IF key \in DOMAIN rec THEN Str(rec[key]) ELSE ""

\* safe_int and safe_float of stats_ingest: None for None and for what does
\* not parse.
safe_int(opt) == IF opt = None THEN None ELSE IntOf(opt[1])

safe_float(opt) == IF opt = None THEN None ELSE IntOf(opt[1])

\* Python's "a or b".
Or(a, b) == IF TruthyNum(a) THEN a ELSE b

\* Records of a stats payload, dict(zip(headers, row)): "GP" stands for the
\* counts read with safe_int, "PTS" for the rates read with safe_float.
StatRecordsOver(id_key, ids, other_key, others, gps, pts) ==
    { Entry(id_key, i) @@ Entry(other_key, o) @@ Entry("GP", g) @@ Entry("PTS", p) :
        i \in ids, o \in others, g \in gps, p \in pts }

\* session.query(TeamStats).filter(team_id, season, season_type).first(), and
\* the same query on PlayerSeasonStats with owner "player_id".
StatsOf(tbl, owner, id, season, season_type) ==
    First({i \in 1..Len(tbl) : /\ tbl[i][owner] = Some(id)
                               /\ tbl[i].season = season
                               /\ tbl[i].season_type = season_type})

\* A TeamStats row that refers to the key after its team's.
create_team_stats_of_next_team(rec, team, season, season_type) ==
    [id |-> 0, team_id |-> Some(team.id + 1), season |-> season, season_type |-> season_type,
     games_played |-> safe_int(Get(rec, "GP")),
     points_per_game |-> safe_float(Get(rec, "PTS"))]

\* create_team_stats_from_data.
create_team_stats_from_data(rec, team, season, season_type) ==
    [id |-> 0, team_id |-> Some(team.id), season |-> season, season_type |-> season_type,
     games_played |-> safe_int(Get(rec, "GP")),
     points_per_game |-> safe_float(Get(rec, "PTS"))]

\* An update that assigns what it parsed, with no "or" to fall back on.
overwrite_team_stats(row, rec) ==
    [row EXCEPT !.games_played = safe_int(Get(rec, "GP")),
                !.points_per_game = safe_float(Get(rec, "PTS"))]

\* update_team_stats.
update_team_stats(row, rec) ==
    [row EXCEPT !.games_played = Or(safe_int(Get(rec, "GP")), @),
                !.points_per_game = Or(safe_float(Get(rec, "PTS")), @)]

\* A loop body without the "if not team: continue": team.id fails on None.
TeamStatStepUnguarded(tbl, team_tbl, s, rec, season, season_type) ==
    LET t == TeamByTeamId(team_tbl, StrOrEmpty(rec, "TEAM_ID"))
    IN IF t = 0 THEN [s EXCEPT !.raised = "AttributeError"]
       ELSE Add(s, create_team_stats_from_data(rec, team_tbl[t], season, season_type))

\* ingest_team_stats, the body of the for loop for one record.
TeamStatStep(tbl, team_tbl, s, rec, season, season_type) ==
    LET t == TeamByTeamId(team_tbl, StrOrEmpty(rec, "TEAM_ID"))
        i == StatsOf(tbl, "team_id", team_tbl[t].id, season, season_type)
    IN IF t = 0 THEN s
       ELSE IF i # 0 THEN Touch([s EXCEPT !.work[i] = update_team_stats(@, rec)], Loaded(i))
       ELSE Add(s, create_team_stats_from_data(rec, team_tbl[t], season, season_type))

RECURSIVE TeamStatLoop(_, _, _, _, _, _)
TeamStatLoop(tbl, team_tbl, s, batch, season, season_type) ==
    IF batch = <<>> \/ s.raised # "" THEN s
    ELSE TeamStatLoop(tbl, team_tbl,
                      Seen(TeamStatStep(tbl, team_tbl, s, Head(batch), season, season_type)),
                      Tail(batch), season, season_type)

\* create_player_stats_from_data; team is 0 for no team.
create_player_stats_from_data(rec, player, team_tbl, team, season, season_type) ==
    [id |-> 0, player_id |-> Some(player.id),
     team_id |-> IF team = 0 THEN None ELSE Some(team_tbl[team].id),
     season |-> season, season_type |-> season_type,
     games_played |-> safe_int(Get(rec, "GP")),
     points_per_game |-> safe_float(Get(rec, "PTS"))]

\* update_player_stats.
update_player_stats(row, rec) ==
    [row EXCEPT !.games_played = Or(safe_int(Get(rec, "GP")), @),
                !.points_per_game = Or(safe_float(Get(rec, "PTS")), @)]

\* ingest_player_stats, the body of the for loop for one record.
PlayerStatStep(tbl, player_tbl, team_tbl, s, rec, season, season_type) ==
    LET p == PlayerByPlayerId(player_tbl, StrOrEmpty(rec, "PLAYER_ID"))
        t == IF TruthyNum(Get(rec, "TEAM_ID")) THEN TeamByTeamId(team_tbl, Str(rec["TEAM_ID"]))
             ELSE 0
        i == StatsOf(tbl, "player_id", player_tbl[p].id, season, season_type)
    IN IF p = 0 THEN s
       ELSE IF i # 0 THEN Touch([s EXCEPT !.work[i] = update_player_stats(@, rec)], Loaded(i))
       ELSE Add(s, create_player_stats_from_data(rec, player_tbl[p], team_tbl, t, season,
                                                 season_type))

RECURSIVE PlayerStatLoop(_, _, _, _, _, _, _)
PlayerStatLoop(tbl, player_tbl, team_tbl, s, batch, season, season_type) ==
    IF batch = <<>> \/ s.raised # "" THEN s
    ELSE PlayerStatLoop(tbl, player_tbl, team_tbl,
                        Seen(PlayerStatStep(tbl, player_tbl, team_tbl, s, Head(batch), season,
                                            season_type)),
                        Tail(batch), season, season_type)

\* TeamStats.team_id, PlayerSeasonStats.player_id and PlayerSeasonStats.team_id
\* are nullable=False; the stats tables declare no unique constraint.
StatsViolation(tbl) ==
    IF \E i \in 1..Len(tbl) : tbl[i].team_id = None THEN "IntegrityError" ELSE ""

\* ------------------------------------------------------------------ commit

\* The table after the first k UPDATE statements of the flush (updates are
\* issued in primary-key order, before the INSERTs).
Updated(tbl, work, k) == [i \in 1..Len(tbl) |-> IF i <= k THEN work[i] ELSE tbl[i]]

\* The pending rows with the keys the INSERTs give them: the next surrogate
\* keys, but for games, whose primary key is the source's game id.
Inserted(table, tbl, pending) ==
    IF table = "games" THEN pending
    ELSE [j \in 1..Len(pending) |-> [pending[j] EXCEPT !.id = Len(tbl) + j]]

\* The rows as their columns store them: Team.team_id is a String column.
Stored(table, rows) ==
    IF table = "teams" THEN [i \in 1..Len(rows) |-> [rows[i] EXCEPT !.team_id = Text(@)]]
    ELSE rows

\* A schema whose columns carry no unique=True.
Unconstrained(table, tbl) == ""

\* The error a statement raises that would leave the table as tbl, "" for none:
\* the constraints the schema declares on each table.
Violation(table, tbl) ==
    CASE table = "teams" -> IF TeamsUnique(tbl) THEN "" ELSE "IntegrityError"
      [] table = "players" -> IF PlayersUnique(tbl) THEN "" ELSE "IntegrityError"
      [] table = "games" -> GamesViolation(tbl)
      [] table \in {"team_stats", "player_stats"} -> StatsViolation(tbl)

\* A commit that replaces the table by the rows the session added.
FlushReplacing(table, tbl, s) ==
    [error |-> "", table |-> Stored(table, Inserted(table, <<>>, s.pending))]

\* session.commit(): the flushed table, or the error of the first statement
\* of the flush that fails.
Flush(table, tbl, s) ==
    LET work == Stored(table, s.work)
        final == work \o Stored(table, Inserted(table, tbl, s.pending))
        bad == {k \in 0..Len(tbl) : Violation(table, Updated(tbl, work, k)) # ""}
    IN IF bad # {} THEN [error |-> Violation(table, Updated(tbl, work, First(bad))), table |-> tbl]
       ELSE IF Violation(table, final) # "" THEN [error |-> Violation(table, final), table |-> tbl]
       ELSE [error |-> "", table |-> final]

\* ------------------------------------------------------------------ fetch

\* Largest max_retries a client is configured with.
MaxRetries == 4

Clients == {"NBAAPIClientFixed", "NBAAPIClientV3", "NBAAPIClient"}

\* What one outbound attempt can meet: an HTTP status, a timeout
\* (requests.exceptions.Timeout), a connection error (another
\* RequestException), or some other exception raised by the wrapped call.
Statuses == {"200", "404", "429", "503"}

Exceptions == {"Timeout", "ConnectionError"}

\* A client that retries every status but 200.
RetryableAlways(status) == status # "200"

\* The statuses NBAAPIClient._get retries.
Retryable(status) == status \in {"429", "500", "502", "503", "504"}

\* time.sleep(seconds), in units of rate_limit_sleep_seconds.
Sleep(kind, units) == [kind |-> kind, units |-> units]

\* A call of a fetch primitive: attempt is the number of outbound attempts
\* made so far (the loop variable of the next iteration), responses what they
\* met, slept the sleeps in order, outcome "running", "returned" or "raised".
NoCall ==
    [client |-> "none", max_retries |-> 0, attempt |-> 0, responses |-> <<>>, slept |-> <<>>,
     outcome |-> "none", error |-> ""]

NewCall(client, n) == [NoCall EXCEPT !.client = client, !.max_retries = n, !.outcome = "running"]

\* A backoff that doubles with each attempt.
ExponentialBackoff(attempt) == 2 ^ attempt

\* rate_limit_sleep_seconds * (attempt + 1), in units of rate_limit_sleep_seconds.
Backoff(attempt) == attempt + 1

\* A loop that gives up one attempt too early.
ExhaustedEarly(attempt, n) == attempt >= n - 2

\* attempt == self.max_retries - 1
Exhausted(attempt, n) == attempt = n - 1

\* A loop that goes on to the next attempt whatever the call gave, and
\* returns or raises at the last one.
RetryIgnoringResult(f, r, e) ==
    LET g == [f EXCEPT !.attempt = @ + 1, !.responses = Append(@, r),
                       !.slept = Append(@, Sleep("rate_limit", 1))]
    IN IF Exhausted(f.attempt, f.max_retries)
       THEN [g EXCEPT !.outcome = IF e = "" THEN "returned" ELSE "raised", !.error = e]
       ELSE [g EXCEPT !.slept = Append(@, Sleep("backoff", Backoff(f.attempt)))]

\* One iteration of the loop of the two wrappers that re-raise what they
\* caught: rate-limit sleep, the call, then return, raise e, or back off.
RetryOrReraise(f, r, e) ==
    LET g == [f EXCEPT !.attempt = @ + 1, !.responses = Append(@, r),
                       !.slept = Append(@, Sleep("rate_limit", 1))]
    IN IF e = "" THEN [g EXCEPT !.outcome = "returned"]
       ELSE IF Exhausted(f.attempt, f.max_retries) THEN [g EXCEPT !.outcome = "raised", !.error = e]
       ELSE [g EXCEPT !.slept = Append(@, Sleep("backoff", Backoff(f.attempt)))]

\* NBAAPIClientFixed._safe_api_call, one iteration: r is "200" when the
\* wrapped call returns, else the exception it raises.
safe_api_call(f, r) == RetryOrReraise(f, r, IF r = "200" THEN "" ELSE r)

\* NBAAPIClientV3._make_request, one iteration: raise_for_status raises
\* HTTPError for a status that is not a success.
make_request(f, r) ==
    RetryOrReraise(f, r, IF r = "200" THEN "" ELSE IF r \in Statuses THEN "HTTPError" ELSE r)

\* NBAAPIClient._get, one iteration.
NBAAPIClient_get(f, r) ==
    LET g == [f EXCEPT !.attempt = @ + 1, !.responses = Append(@, r)]
        factor == IF r = "Timeout" THEN 2 ELSE 1
        backoff == [g EXCEPT !.slept = Append(@, Sleep("backoff", Backoff(f.attempt) * factor))]
        error == [g EXCEPT !.outcome = "raised", !.error = "NBAAPIError"]
    IN IF r = "200" THEN [g EXCEPT !.outcome = "returned"]
       ELSE IF r \in Statuses /\ Retryable(r)
       THEN IF Exhausted(f.attempt, f.max_retries)
            THEN [backoff EXCEPT !.outcome = "raised", !.error = "NBAAPIError"]
            ELSE backoff
       ELSE IF r \in Statuses THEN error
       ELSE IF Exhausted(f.attempt, f.max_retries) THEN error
       ELSE backoff

\* A client method calls its fetch primitive.
StartFetch ==
    /\ fetch.outcome # "running"
    /\ \E c \in Clients, n \in 1..MaxRetries : fetch' = NewCall(c, n)
    /\ UNCHANGED <<store, last, command>>

SafeApiCallAttempt ==
    /\ fetch.client = "NBAAPIClientFixed"
    /\ fetch.outcome = "running"
    /\ \E r \in {"200", "Exception"} \cup Exceptions : fetch' = safe_api_call(fetch, r)
    /\ UNCHANGED <<store, last, command>>

MakeRequestAttempt ==
    /\ fetch.client = "NBAAPIClientV3"
    /\ fetch.outcome = "running"
    /\ \E r \in Statuses \cup Exceptions : fetch' = make_request(fetch, r)
    /\ UNCHANGED <<store, last, command>>

GetAttempt ==
    /\ fetch.client = "NBAAPIClient"
    /\ fetch.outcome = "running"
    /\ \E r \in Statuses \cup Exceptions : fetch' = NBAAPIClient_get(fetch, r)
    /\ UNCHANGED <<store, last, command>>

\* ------------------------------------------------------------------ ingest

\* What the caller of an ingest observes: the ingest, whether the client's
\* fetch succeeded, the batch it handed over, "returned" or "raised", the
\* error, the list returned; and what the invocation did with its session:
\* session is "None" when the caller passed no session, processed the number
\* of records the loop went through, calls the session methods called and the
\* re-raise, in the order the statements ran.
Outcome(op, fetched, batch, result, error) ==
    [op |-> op, season |-> Season, fetched |-> fetched, batch |-> batch, result |-> result,
     error |-> error, returned |-> <<>>, session |-> "None", processed |-> 0, calls |-> <<>>]

\* An ingest that commits after each record.
SessionCallsPerRecord(s, result, should_close) ==
    [k \in 1..s.seen |-> "commit"]
        \o (IF result = "raised" THEN <<"rollback", "raise">> ELSE <<>>)
        \o (IF should_close THEN <<"close">> ELSE <<>>)

\* An ingest that closes every session, its caller's too.
SessionCallsClosing(s, result, should_close) ==
    (IF s.raised # "" THEN <<>> ELSE <<"commit">>)
        \o (IF result = "raised" THEN <<"rollback", "raise">> ELSE <<>>)
        \o <<"close">>

\* The statements of an ingest that touch the session once the loop has
\* ended: session.commit() unless the try block was left by an exception,
\* session.rollback() and raise in the except block, session.close() in the
\* finally block when should_close.
SessionCalls(s, result, should_close) ==
    (IF s.raised # "" THEN <<>> ELSE <<"commit">>)
        \o (IF result = "raised" THEN <<"rollback", "raise">> ELSE <<>>)
        \o (IF should_close THEN <<"close">> ELSE <<>>)

\* The outcome r of an ingest that was called with session and ended its
\* loop with s.
Observed(r, s, session) ==
    [r EXCEPT !.session = session, !.processed = s.seen,
              !.calls = SessionCalls(s, r.result, session = "None")]

\* The list an ingest returns after its commit, as the positions its entities
\* have in the table: a loaded row keeps its position, the added objects
\* follow the rows that were there.
Returned(tbl, s) ==
    [k \in 1..Len(s.touched) |->
        IF s.touched[k].kind = "loaded" THEN s.touched[k].at ELSE Len(tbl) + s.touched[k].at]

Idle == Outcome("none", "none", <<>>, "none", "")

\* An ingest that commits the records processed before the failing one.
FinishCommittingProcessed(op, fetched, batch, table, tbl, s, db_fails) ==
    LET f == Flush(table, tbl, s)
    IN IF f.error # "" \/ (s.raised = "" /\ db_fails)
       THEN [last |-> Outcome(op, fetched, batch, "raised",
                              IF s.raised # "" THEN s.raised
                              ELSE IF f.error # "" THEN f.error ELSE "OperationalError"),
             table |-> tbl]
       ELSE [last |-> Outcome(op, fetched, batch, IF s.raised # "" THEN "raised" ELSE "returned",
                              s.raised),
             table |-> f.table]

\* The try block of an ingest after the loop: commit, or rollback and re-raise.
\* s is the session after the loop, db_fails whether the database refuses the
\* commit; gives the outcome and the table as persisted afterwards.
Finish(op, fetched, batch, table, tbl, s, db_fails) ==
    LET f == Flush(table, tbl, s)
    IN IF s.raised # ""
       THEN [last |-> Outcome(op, fetched, batch, "raised", s.raised), table |-> tbl]
       ELSE IF f.error # ""
       THEN [last |-> Outcome(op, fetched, batch, "raised", f.error), table |-> tbl]
       ELSE IF db_fails
       THEN [last |-> Outcome(op, fetched, batch, "raised", "OperationalError"), table |-> tbl]
       ELSE [last |-> [Outcome(op, fetched, batch, "returned", "") EXCEPT
                          !.returned = Returned(tbl, s)],
             table |-> f.table]

\* The list a fixed client's get_* method returns: the records, or [] when the
\* fetch failed (the method catches the exception and returns []).
FixedClientResult(api_failed, batch) == IF api_failed THEN <<>> ELSE batch

Fetched(api_failed) == IF api_failed THEN "failed" ELSE "ok"

\* ingest_teams(session=None); batch is what client.get_teams() builds from
\* the static data, api_failed whether reading them raised, db_fails whether
\* the database refuses the commit.
ingest_teams(api_failed, batch, db_fails, session) ==
    /\ LET teams_data == FixedClientResult(api_failed, batch)
           s == TeamLoop(teams, NewSession(teams), teams_data)
           r == Finish("ingest_teams", Fetched(api_failed), batch, "teams", teams, s, db_fails)
       IN /\ last' = Observed(r.last, s, session)
          /\ teams' = r.table
    /\ UNCHANGED <<players, games, team_stats, player_stats, fetch>>

\* ingest_players(season, team_id, session=None).
ingest_players(api_failed, batch, db_fails, session) ==
    /\ LET players_data == FixedClientResult(api_failed, batch)
           s == PlayerLoop(players, teams, NewSession(players), players_data)
           r == Finish("ingest_players", Fetched(api_failed), batch, "players", players, s, db_fails)
       IN /\ last' = Observed(r.last, s, session)
          /\ players' = r.table
    /\ UNCHANGED <<teams, games, team_stats, player_stats, fetch>>

\* ingest_games(season, season_type, session=None).
ingest_games(api_failed, batch, db_fails, session) ==
    /\ LET games_data == FixedClientResult(api_failed, batch)
           s == GameLoop(games, teams, NewSession(games), games_data)
           r == Finish("ingest_games", Fetched(api_failed), batch, "games", games, s, db_fails)
       IN /\ last' = Observed(r.last, s, session)
          /\ games' = r.table
    /\ UNCHANGED <<teams, players, team_stats, player_stats, fetch>>

\* ingest_team_stats(season, season_type, session=None); the stats client
\* raises NBAAPIError when every attempt of the fetch fails.
ingest_team_stats(season, api_failed, batch, db_fails, session) ==
    /\ LET fetched == [NewSession(team_stats) EXCEPT !.raised = "NBAAPIError"]
           s == IF api_failed THEN fetched
                ELSE TeamStatLoop(team_stats, teams, NewSession(team_stats), batch, season,
                                  SeasonType)
           r == Finish("ingest_team_stats", Fetched(api_failed), batch, "team_stats",
                       team_stats, s, db_fails)
       IN /\ last' = [Observed(r.last, s, session) EXCEPT !.season = season]
          /\ team_stats' = r.table
    /\ UNCHANGED <<teams, players, games, player_stats, fetch>>

\* ingest_player_stats(season, season_type, team_id, session=None).
ingest_player_stats(season, api_failed, batch, db_fails, session) ==
    /\ LET fetched == [NewSession(player_stats) EXCEPT !.raised = "NBAAPIError"]
           s == IF api_failed THEN fetched
                ELSE PlayerStatLoop(player_stats, players, teams, NewSession(player_stats),
                                    batch, season, SeasonType)
           r == Finish("ingest_player_stats", Fetched(api_failed), batch, "player_stats",
                       player_stats, s, db_fails)
       IN /\ last' = [Observed(r.last, s, session) EXCEPT !.season = season]
          /\ player_stats' = r.table
    /\ UNCHANGED <<teams, players, games, team_stats, fetch>>

\* get_all_teams(session=None), a query helper: it returns the rows and closes
\* the session it made itself.
get_all_teams(session) ==
    /\ last' = [Outcome("get_all_teams", "none", <<>>, "returned", "") EXCEPT
                    !.returned = [i \in 1..Len(teams) |-> i],
                    !.session = session,
                    !.calls = IF session = "None" THEN <<"close">> ELSE <<>>]
    /\ UNCHANGED <<store, fetch, command>>

\* The command ends: its caller has the returned list or the exception, and
\* the next command starts from the store as persisted.
Acknowledge ==
    /\ last # Idle
    /\ last' = Idle
    /\ UNCHANGED <<store, fetch, command>>

\* ------------------------------------------------------------------ ingest-historical

\* No ingest-historical command has been started.
NoCommand ==
    [status |-> "none", start_year |-> 0, end_year |-> None, data_types |-> {},
     plan |-> <<>>, ran |-> <<>>]

\* The data types in the order of the command's if statements.
DataTypes == <<"teams", "games", "players", "team_stats", "player_stats">>

\* range(lo, hi + 1).
Range(lo, hi) == [i \in 1..(hi - lo + 1) |-> lo + i - 1]

\* args.end_year or args.start_year: None and 0 are both falsy.
EndYear(start_year, end_year) ==
    IF end_year = None \/ end_year = Some(0) THEN start_year ELSE end_year[1]

\* The ingests of one pass of the loop body, in the order of the if statements.
RECURSIVE YearCalls(_, _, _)
YearCalls(year, data_types, i) ==
    IF i > Len(DataTypes) THEN <<>>
    ELSE (IF DataTypes[i] \in data_types THEN <<(<<year, DataTypes[i]>>)>> ELSE <<>>)
             \o YearCalls(year, data_types, i + 1)

\* The ingests the two nested loops make when none of them raises.
RECURSIVE HistoricalCalls(_, _)
HistoricalCalls(years, data_types) ==
    IF years = <<>> THEN <<>>
    ELSE YearCalls(Head(years), data_types, 1) \o HistoricalCalls(Tail(years), data_types)

\* The command is entered: the arguments are parsed and the loops start. A
\* behaviour holds one ingest-historical command, on the store as the commands
\* before it left it.
StartHistorical(StartYears, EndYears) ==
    /\ command.status = "none"
    /\ last = Idle
    /\ \E start_year \in StartYears, end_year \in EndYears,
          data_types \in SUBSET {DataTypes[i] : i \in 1..Len(DataTypes)} :
          LET plan == HistoricalCalls(Range(start_year, EndYear(start_year, end_year)),
                                      data_types)
          IN  command' = [status |-> IF plan = <<>> THEN "completed" ELSE "running",
                          start_year |-> start_year, end_year |-> end_year,
                          data_types |-> data_types, plan |-> plan, ran |-> <<>>]
    /\ UNCHANGED <<store, last, fetch>>

\* The ingest of the loops' next step, called the way the command calls it.
HistoricalIngest(call, TB, PB, GB, TSB, PSB) ==
    \E api_failed \in BOOLEAN, db_fails \in BOOLEAN :
        \/ /\ call[2] = "teams"
           /\ \E batch \in TB :
                 /\ api_failed => batch = <<>>
                 /\ ingest_teams(api_failed, batch, db_fails, "None")
        \/ /\ call[2] = "games"
           /\ \E batch \in GB :
                 /\ api_failed => batch = <<>>
                 /\ ingest_games(api_failed, batch, db_fails, "None")
        \/ /\ call[2] = "players"
           /\ \E batch \in PB :
                 /\ api_failed => batch = <<>>
                 /\ ingest_players(api_failed, batch, db_fails, "None")
        \/ /\ call[2] = "team_stats"
           /\ \E batch \in TSB :
                 /\ api_failed => batch = <<>>
                 /\ ingest_team_stats(call[1], api_failed, batch, db_fails, "None")
        \/ /\ call[2] = "player_stats"
           /\ \E batch \in PSB :
                 /\ api_failed => batch = <<>>
                 /\ ingest_player_stats(call[1], api_failed, batch, db_fails, "None")

\* One step of the loops: the next ingest runs; an exception it raises leaves
\* the command, a return goes on to the next ingest or to the end.
HistoricalStep(TB, PB, GB, TSB, PSB) ==
    /\ command.status = "running"
    /\ LET call == command.plan[Len(command.ran) + 1]
       IN  /\ HistoricalIngest(call, TB, PB, GB, TSB, PSB)
           /\ command' = [command EXCEPT
                  !.ran = Append(@, call),
                  !.status = IF last'.result = "raised" THEN "raised"
                             ELSE IF Len(command.ran) + 1 = Len(command.plan)
                                  THEN "completed" ELSE "running"]

Init ==
    /\ teams = <<>>
    /\ players = <<>>
    /\ games = <<>>
    /\ team_stats = <<>>
    /\ player_stats = <<>>
    /\ last = Idle
    /\ fetch = NoCall
    /\ command = NoCommand

\* A command of the CLI: one ingest on a freshly fetched batch out of B, or
\* on a fetch that failed; the CLI passes no session.
CallTeams(B) ==
    /\ last = Idle
    /\ \E f \in BOOLEAN, b \in B, d \in BOOLEAN : (f => b = <<>>) /\ ingest_teams(f, b, d, "None")
    /\ UNCHANGED command

CallPlayers(B) ==
    /\ last = Idle
    /\ \E f \in BOOLEAN, b \in B, d \in BOOLEAN : (f => b = <<>>) /\ ingest_players(f, b, d, "None")
    /\ UNCHANGED command

CallGames(B) ==
    /\ last = Idle
    /\ \E f \in BOOLEAN, b \in B, d \in BOOLEAN : (f => b = <<>>) /\ ingest_games(f, b, d, "None")
    /\ UNCHANGED command

\* A caller that opens a session and hands it to the ingest or the helper.
Sessions == {"None", "supplied"}

CallTeamsWithSession(B) ==
    /\ last = Idle
    /\ \E f \in BOOLEAN, b \in B, d \in BOOLEAN :
          (f => b = <<>>) /\ ingest_teams(f, b, d, "supplied")
    /\ UNCHANGED command

CallPlayerStatsWithSession(Y, B) ==
    /\ last = Idle
    /\ \E y \in Y, f \in BOOLEAN, b \in B, d \in BOOLEAN :
          (f => b = <<>>) /\ ingest_player_stats(y, f, b, d, "supplied")
    /\ UNCHANGED command

QueryTeams ==
    /\ last = Idle
    /\ \E session \in Sessions : get_all_teams(session)

\* The same ingest run again on the same fetched batch (ingest-historical
\* repeats each ingest once per year).
RerunTeams ==
    /\ last.op = "ingest_teams"
    /\ \E d \in BOOLEAN : ingest_teams(last.fetched = "failed", last.batch, d, last.session)
    /\ UNCHANGED command

RerunPlayers ==
    /\ last.op = "ingest_players"
    /\ \E d \in BOOLEAN : ingest_players(last.fetched = "failed", last.batch, d, last.session)
    /\ UNCHANGED command

RerunGames ==
    /\ last.op = "ingest_games"
    /\ \E d \in BOOLEAN : ingest_games(last.fetched = "failed", last.batch, d, last.session)
    /\ UNCHANGED command

CallTeamStats(Y, B) ==
    /\ last = Idle
    /\ \E y \in Y, f \in BOOLEAN, b \in B, d \in BOOLEAN :
          (f => b = <<>>) /\ ingest_team_stats(y, f, b, d, "None")
    /\ UNCHANGED command

CallPlayerStats(Y, B) ==
    /\ last = Idle
    /\ \E y \in Y, f \in BOOLEAN, b \in B, d \in BOOLEAN :
          (f => b = <<>>) /\ ingest_player_stats(y, f, b, d, "None")
    /\ UNCHANGED command

RerunTeamStats ==
    /\ last.op = "ingest_team_stats"
    /\ \E d \in BOOLEAN :
          ingest_team_stats(last.season, last.fetched = "failed", last.batch, d,
                            last.session)
    /\ UNCHANGED command

RerunPlayerStats ==
    /\ last.op = "ingest_player_stats"
    /\ \E d \in BOOLEAN :
          ingest_player_stats(last.season, last.fetched = "failed", last.batch, d,
                            last.session)
    /\ UNCHANGED command

\* ------------------------------------------------------------------ specifications

\* Every ingest, over small payloads: one team, one player, one game.
SmallTeamBatches ==
    SeqsUpTo(TeamRecordsOver({<<"1">>}, {<<>>, <<"LAL">>}, {<<>>}), MaxBatch)

SmallPlayerBatches ==
    SeqsUpTo(PlayerRecordsOver({<<Some("1")>>}, {<<Some(LeBronJames)>>}, {<<>>},
                               {<<>>, <<Some("220")>>}, {<<>>}, {<<>>}), MaxBatch)

SmallGameBatches ==
    { get_games(rows) :
        rows \in SeqsUpTo(ScoreboardRowsOver({"1"}, {<<MaxScore>>}, {<<>>}), MaxBatch) }
    \cup SeqsUpTo(GameRecordsOver({<<"1">>}, {<<>>}, {<<>>}, {<<>>}, {<<Some(0)>>}, {<<>>}),
                  MaxBatch)

SmallTeamStatBatches ==
    SeqsUpTo(StatRecordsOver("TEAM_ID", {<<Some(1)>>}, "TEAM_NAME", {<<>>},
                             {<<>>, <<Some("7")>>}, {<<>>}), MaxBatch)

SmallPlayerStatBatches ==
    SeqsUpTo(StatRecordsOver("PLAYER_ID", {<<Some(1)>>}, "TEAM_ID", {<<Some(1)>>},
                             {<<>>, <<Some("7")>>}, {<<>>}), MaxBatch)

Next ==
    \/ CallTeams(SmallTeamBatches)
    \/ RerunTeams
    \/ CallPlayers(SmallPlayerBatches)
    \/ RerunPlayers
    \/ CallGames(SmallGameBatches)
    \/ RerunGames
    \/ CallTeamStats({Season}, SmallTeamStatBatches)
    \/ RerunTeamStats
    \/ CallPlayerStats({Season}, SmallPlayerStatBatches)
    \/ RerunPlayerStats
    \/ Acknowledge

Spec == Init /\ [][Next]_vars

\* Teams alone, over every shape of team record.
NextTeams ==
    \/ CallTeams(TeamBatches)
    \/ RerunTeams
    \/ Acknowledge

SpecTeams == Init /\ [][NextTeams]_vars

\* Teams and players.
RosterTeamBatches ==
    SeqsUpTo(TeamRecordsOver(Present(TeamIds), Present(Abbreviations), {<<>>}), MaxBatch)

RosterPlayerBatches ==
    SeqsUpTo(PlayerRecordsOver({<<>>, <<Some("1")>>}, {<<Some(LeBronJames)>>}, {<<>>},
                               {<<>>, <<Some("220")>>}, {<<>>}, {<<>>}),
             MaxBatch)

NextRoster ==
    \/ CallTeams(RosterTeamBatches)
    \/ RerunTeams
    \/ CallPlayers(RosterPlayerBatches)
    \/ RerunPlayers
    \/ Acknowledge

SpecRoster == Init /\ [][NextRoster]_vars

\* The fetch primitives of the three clients.
NextFetch ==
    \/ StartFetch
    \/ SafeApiCallAttempt
    \/ MakeRequestAttempt
    \/ GetAttempt

SpecFetch == Init /\ [][NextFetch]_vars

\* Stats over one seeded team and one seeded player; the payloads also name
\* a team and a player that are not in the store.
OneTeamBatches == {<<r>> : r \in TeamRecordsOver({<<"1">>}, {<<"LAL">>}, {<<>>})}

OnePlayerBatches ==
    { <<r>> : r \in PlayerRecordsOver({<<Some("1")>>}, {<<Some(LeBronJames)>>}, {<<>>}, {<<>>},
                                      {<<>>}, {<<>>}) }

TeamStatBatches ==
    SeqsUpTo(StatRecordsOver("TEAM_ID", Present(Present(StatIds)), "TEAM_NAME", {<<>>},
                             {<<Some("7")>>}, {<<>>}), MaxBatch)

PlayerStatBatches ==
    SeqsUpTo(StatRecordsOver("PLAYER_ID", Present(Present(StatIds)), "TEAM_ID",
                             {<<>>, <<Some(1)>>}, {<<Some("7")>>}, {<<>>}), MaxBatch)

NextStats ==
    \/ CallTeams(OneTeamBatches)
    \/ CallPlayers(OnePlayerBatches)
    \/ CallTeamStats(Seasons, TeamStatBatches)
    \/ RerunTeamStats
    \/ CallPlayerStats({Season}, PlayerStatBatches)
    \/ RerunPlayerStats
    \/ Acknowledge

SpecStats == Init /\ [][NextStats]_vars

\* Games over one seeded team: the records NBAAPIClientFixed.get_games
\* builds, and records of the contract with scores present, None or left out.
ScoreChoices == {<<>>, <<None>>} \cup Present(Present(Scores))

ContractGameBatches ==
    SeqsUpTo(GameRecordsOver({<<"1">>}, {<<"LAL">>}, {<<>>}, ScoreChoices, ScoreChoices, {<<>>}),
             MaxBatch)

ClientGameBatches ==
    { get_games(rows) :
        rows \in SeqsUpTo(ScoreboardRowsOver({"1"}, {<<>>} \cup Present(Scores),
                                             {<<>>} \cup Present(Scores)), MaxBatch) }

NextGames ==
    \/ CallTeams(OneTeamBatches)
    \/ CallGames(ContractGameBatches \cup ClientGameBatches)
    \/ RerunGames
    \/ Acknowledge

SpecGames == Init /\ [][NextGames]_vars

\* References: one seeded team, games and players that name it or a team
\* that is not in the store.
ReferenceGameBatches ==
    SeqsUpTo(GameRecordsOver({<<"1">>}, {<<"LAL">>, <<"SEA">>}, {<<>>}, {<<>>}, {<<>>}, {<<>>}),
             MaxBatch)
    \cup { get_games(rows) : rows \in SeqsUpTo(ScoreboardRowsOver({"1"}, {<<>>}, {<<>>}), MaxBatch) }

ReferencePlayerBatches ==
    SeqsUpTo(PlayerRecordsOver({<<Some("1")>>}, {<<Some(LeBronJames)>>}, {<<>>}, {<<>>}, {<<>>},
                               {<<Some("1")>>, <<Some("2")>>}), MaxBatch)

NextReferences ==
    \/ CallTeams(OneTeamBatches)
    \/ RerunTeams
    \/ CallGames(ReferenceGameBatches)
    \/ RerunGames
    \/ CallPlayers(ReferencePlayerBatches)
    \/ RerunPlayers
    \/ Acknowledge

SpecReferences == Init /\ [][NextReferences]_vars

\* Stats whose counts are zero or positive, over one seeded team and player.
ZeroTeamStatBatches ==
    SeqsUpTo(StatRecordsOver("TEAM_ID", {<<Some(1)>>}, "TEAM_NAME", {<<>>},
                             {<<Some("0")>>, <<Some("7")>>}, {<<>>}), MaxBatch)

ZeroPlayerStatBatches ==
    SeqsUpTo(StatRecordsOver("PLAYER_ID", {<<Some(1)>>}, "TEAM_ID", {<<Some(1)>>},
                             {<<Some("0")>>, <<Some("7")>>}, {<<>>}), MaxBatch)

NextZero ==
    \/ CallTeams(OneTeamBatches)
    \/ CallPlayers(OnePlayerBatches)
    \/ CallTeamStats({Season}, ZeroTeamStatBatches)
    \/ RerunTeamStats
    \/ CallPlayerStats({Season}, ZeroPlayerStatBatches)
    \/ RerunPlayerStats
    \/ Acknowledge

SpecZero == Init /\ [][NextZero]_vars

\* Identifiers supplied as strings and as numbers, in all four ingests that
\* look a team or a player up by its external identifier.
IdentifierTeamBatches ==
    SeqsUpTo(TeamRecordsOver({<<"1">>, <<"int:1">>}, {<<"LAL">>}, {<<>>}), MaxBatch)

IdentifierPlayerBatches ==
    SeqsUpTo(PlayerRecordsOver({<<Some("1")>>, <<Some("int:1")>>}, {<<Some(LeBronJames)>>},
                               {<<>>}, {<<>>}, {<<>>}, {<<>>}), MaxBatch)

NextIdentifiers ==
    \/ CallTeams(IdentifierTeamBatches)
    \/ RerunTeams
    \/ CallPlayers(IdentifierPlayerBatches)
    \/ RerunPlayers
    \/ CallTeamStats({Season}, SmallTeamStatBatches)
    \/ RerunTeamStats
    \/ CallPlayerStats({Season}, SmallPlayerStatBatches)
    \/ RerunPlayerStats
    \/ Acknowledge

SpecIdentifiers == Init /\ [][NextIdentifiers]_vars

\* Players whose full names are any string of at most MaxName characters
\* over a letter and the space.
MaxName == 3

Names == UNION {[1..k -> {"L", " "}] : k \in 1..MaxName}

NamePlayerBatches ==
    SeqsUpTo(PlayerRecordsOver({<<Some("1")>>}, {<<Some(n)>> : n \in Names}, {<<>>}, {<<>>},
                               {<<>>}, {<<>>}), 1)

NextNames ==
    \/ CallPlayers(NamePlayerBatches)
    \/ RerunPlayers
    \/ Acknowledge

SpecNames == Init /\ [][NextNames]_vars

\* Ingests and a query helper called without a session and with one.
NextSessions ==
    \/ CallTeams(SmallTeamBatches)
    \/ CallTeamsWithSession(SmallTeamBatches)
    \/ RerunTeams
    \/ CallPlayers(OnePlayerBatches)
    \/ CallPlayerStats({Season}, SmallPlayerStatBatches)
    \/ CallPlayerStatsWithSession({Season}, SmallPlayerStatBatches)
    \/ RerunPlayerStats
    \/ QueryTeams
    \/ Acknowledge

SpecSessions == Init /\ [][NextSessions]_vars

\* The ingest-historical command over one-record payloads; the end year is
\* absent, zero, or a year on either side of the start year.
HistoricalTeamBatches == {<<>>} \cup OneTeamBatches

HistoricalPlayerBatches == {<<>>} \cup OnePlayerBatches

HistoricalGameBatches ==
    SeqsUpTo(GameRecordsOver({<<"1">>}, {<<>>}, {<<>>}, {<<>>}, {<<Some(0)>>}, {<<>>}), 1)

HistoricalTeamStatBatches ==
    SeqsUpTo(StatRecordsOver("TEAM_ID", {<<Some(1)>>}, "TEAM_NAME", {<<>>}, {<<Some("7")>>},
                             {<<>>}), 1)

HistoricalPlayerStatBatches ==
    SeqsUpTo(StatRecordsOver("PLAYER_ID", {<<Some(1)>>}, "TEAM_ID", {<<Some(1)>>},
                             {<<Some("7")>>}, {<<>>}), 1)

EndYears == {None, Some(0)} \cup {Some(y) : y \in Seasons}

NextHistorical ==
    \/ StartHistorical(Seasons, EndYears)
    \/ HistoricalStep(HistoricalTeamBatches, HistoricalPlayerBatches, HistoricalGameBatches,
                      HistoricalTeamStatBatches, HistoricalPlayerStatBatches)
    \/ Acknowledge

SpecHistorical == Init /\ [][NextHistorical]_vars

\* ------------------------------------------------------------------ claims

\* C1: after any sequence of ingest_teams and ingest_players invocations,
\* successful or failed, no two persisted Team rows share a team_id and no two
\* persisted Player rows share a player_id.
C1_IdentifierUniqueness ==
    /\ \A i, j \in 1..Len(teams) : i # j => teams[i].team_id # teams[j].team_id
    /\ \A i, j \in 1..Len(players) : i # j => players[i].player_id # players[j].player_id

\* C1 witness: with teams and players persisted, a batch that would have
\* duplicated an identifier was refused by the store.
C1_Witness ==
    /\ Len(teams) > 1
    /\ Len(players) > 1
    /\ last.result = "raised"
    /\ last.error = "IntegrityError"

\* C2: for each of the five ingests, every store and every fetched batch,
\* ingesting the same batch a second time in succession leaves the store with
\* the rows and field values it had after the first ingest.
C2_Idempotence ==
    [][(last.result = "returned" /\ last'.op = last.op) => store' = store]_vars

\* C3: when processing a record of the batch or committing raises an error,
\* the store after the invocation is the store before it (records processed
\* before the failing one included) and the error reaches the caller.
C3_LoopError ==
    LET data == FixedClientResult(last'.fetched = "failed", last'.batch)
    IN CASE last'.op = "ingest_teams" -> TeamLoop(teams, NewSession(teams), data).raised
         [] last'.op = "ingest_players" ->
              PlayerLoop(players, teams, NewSession(players), data).raised
         [] last'.op = "ingest_games" -> GameLoop(games, teams, NewSession(games), data).raised
         [] last'.op = "ingest_team_stats" ->
              TeamStatLoop(team_stats, teams, NewSession(team_stats), data, last'.season,
                           SeasonType).raised
         [] last'.op = "ingest_player_stats" ->
              PlayerStatLoop(player_stats, players, teams, NewSession(player_stats), data,
                             last'.season, SeasonType).raised
         [] OTHER -> ""

C3_RollbackAndReraise ==
    [][/\ last'.result = "raised" => store' = store
       /\ C3_LoopError # "" => last'.result = "raised" /\ last'.error = C3_LoopError
       /\ last'.result = "returned" => last'.error = ""]_vars

\* C3 witness: a batch of two team records failed on its second record, the
\* first having been added to the session, with players already in the store.
C3_Witness ==
    /\ last.op = "ingest_teams"
    /\ last.result = "raised"
    /\ last.error = "KeyError"
    /\ Len(last.batch) = 2
    /\ {"team_id", "name", "abbreviation"} \subseteq DOMAIN last.batch[1]
    /\ teams = <<>>
    /\ players # <<>>

\* C4: every persisted Game with both scores has home_win = (home_score >
\* away_score), and every persisted Game missing a score has home_win null,
\* after any sequence of ingest_games invocations.
C4_HomeWinConsistent ==
    \A i \in 1..Len(games) :
        IF games[i].home_score # None /\ games[i].away_score # None
        THEN games[i].home_win = Some(games[i].home_score[1] > games[i].away_score[1])
        ELSE games[i].home_win = None

C6_FetchFailureRaises == last.fetched = "failed" => last.result = "raised"

\* C7: the error that reaches the caller of a fetch primitive after the last
\* failed attempt is the client's fetch-error type, never the raw exception.
C7_FetchErrorType == fetch.outcome = "raised" => fetch.error = "NBAAPIError"

\* C8: when an ingest updates an existing Team, Game, Player, TeamStats or
\* PlayerSeasonStats row with records that leave out the key of field X, the
\* stored X after the ingest is the stored X before it.
C8_OmittedFieldsKept ==
    [][last'.result = "returned" =>
        LET b == last'.batch
            omitted(hits, key) == \A n \in hits : key \notin DOMAIN b[n]
            team_hits(i) == {n \in 1..Len(b) : Text(b[n]["team_id"]) = teams[i].team_id}
            game_hits(i) == {n \in 1..Len(b) : b[n]["game_id"] = games[i].id}
            player_hits(i) ==
                {n \in 1..Len(b) : /\ Get(b[n], "player_id") # None
                                   /\ Text(b[n]["player_id"][1]) = players[i].player_id}
            team_stat_hits(i) ==
                {n \in 1..Len(b) :
                    LET t == TeamByTeamId(teams, StrOrEmpty(b[n], "TEAM_ID"))
                    IN t # 0 /\ team_stats[i].team_id = Some(teams[t].id)
                             /\ team_stats[i].season = last'.season}
            player_stat_hits(i) ==
                {n \in 1..Len(b) :
                    LET q == PlayerByPlayerId(players, StrOrEmpty(b[n], "PLAYER_ID"))
                    IN q # 0 /\ player_stats[i].player_id = Some(players[q].id)
                             /\ player_stats[i].season = last'.season}
        IN /\ last'.op = "ingest_teams" =>
                \A i \in 1..Len(teams), k \in {"name", "abbreviation", "city"} :
                    omitted(team_hits(i), k) => teams'[i][k] = teams[i][k]
           /\ last'.op = "ingest_games" =>
                \A i \in 1..Len(games), k \in GameAttrs :
                    omitted(game_hits(i), k) => games'[i][k] = games[i][k]
           /\ last'.op = "ingest_players" =>
                \A i \in 1..Len(players) :
                    /\ omitted(player_hits(i), "name") =>
                          /\ players'[i].name = players[i].name
                          /\ players'[i].first_name = players[i].first_name
                          /\ players'[i].last_name = players[i].last_name
                    /\ \A k \in {"position", "weight", "is_active"} :
                          omitted(player_hits(i), k) => players'[i][k] = players[i][k]
           /\ last'.op = "ingest_team_stats" =>
                \A i \in 1..Len(team_stats) :
                    /\ omitted(team_stat_hits(i), "GP") =>
                          team_stats'[i].games_played = team_stats[i].games_played
                    /\ omitted(team_stat_hits(i), "PTS") =>
                          team_stats'[i].points_per_game = team_stats[i].points_per_game
           /\ last'.op = "ingest_player_stats" =>
                \A i \in 1..Len(player_stats) :
                    /\ omitted(player_stat_hits(i), "GP") =>
                          player_stats'[i].games_played = player_stats[i].games_played
                    /\ omitted(player_stat_hits(i), "PTS") =>
                          player_stats'[i].points_per_game = player_stats[i].points_per_game]_vars

\* C8 witness: ingest_team_stats returned after updating, with a record that
\* has no "GP" key, the row of a team whose games_played is stored.
C8_Witness ==
    /\ last.op = "ingest_team_stats"
    /\ last.result = "returned"
    /\ Len(last.batch) = 1
    /\ "GP" \notin DOMAIN last.batch[1]
    /\ TeamByTeamId(teams, StrOrEmpty(last.batch[1], "TEAM_ID")) # 0
    /\ Len(team_stats) = 1
    /\ team_stats[1].games_played = Some(7)

\* C9: the store holds at most one TeamStats row per (team, season,
\* season_type) and at most one PlayerSeasonStats row per (player, season,
\* season_type), whatever the batches, repeated owners included.
C9_OneStatsRowPerOwnerSeason ==
    /\ \A i, j \in 1..Len(team_stats) :
          i # j => \/ team_stats[i].team_id # team_stats[j].team_id
                   \/ team_stats[i].season # team_stats[j].season
                   \/ team_stats[i].season_type # team_stats[j].season_type
    /\ \A i, j \in 1..Len(player_stats) :
          i # j => \/ player_stats[i].player_id # player_stats[j].player_id
                   \/ player_stats[i].season # player_stats[j].season
                   \/ player_stats[i].season_type # player_stats[j].season_type

\* C10: ingest_team_stats inserts no row for a record whose team identifier
\* matches no persisted Team, raises no error for it, and processes the rest
\* of the batch; ingest_player_stats does the same for an unknown player.
C10_UnknownOwnerSkipped ==
    [][LET b == last'.batch
           team(n) == TeamByTeamId(teams, StrOrEmpty(b[n], "TEAM_ID"))
           player(n) == PlayerByPlayerId(players, StrOrEmpty(b[n], "PLAYER_ID"))
           team_creates ==
               {n \in 1..Len(b) :
                   /\ team(n) # 0
                   /\ StatsOf(team_stats, "team_id", teams[team(n)].id, last'.season,
                              SeasonType) = 0}
           player_creates ==
               {n \in 1..Len(b) :
                   /\ player(n) # 0
                   /\ StatsOf(player_stats, "player_id", players[player(n)].id, last'.season,
                              SeasonType) = 0}
       IN /\ (last'.op = "ingest_team_stats" /\ last'.fetched = "ok") =>
              /\ last'.error \in {"", "OperationalError"}
              /\ last'.result = "returned" =>
                    Len(team_stats') = Len(team_stats) + Cardinality(team_creates)
              /\ \A i \in 1..Len(team_stats') : team_stats'[i].team_id # None
          /\ (last'.op = "ingest_player_stats" /\ last'.fetched = "ok") =>
              /\ (\A n \in 1..Len(b) : player(n) = 0) =>
                    last'.error \in {"", "OperationalError"}
              /\ last'.result = "returned" =>
                    Len(player_stats') = Len(player_stats) + Cardinality(player_creates)
              /\ \A i \in 1..Len(player_stats') : player_stats'[i].player_id # None]_vars

\* C10 witness: ingest_team_stats returned for a batch whose first record
\* names a team that is not in the store and whose second names one that is,
\* and the second one's row is stored.
C10_Witness ==
    /\ last.op = "ingest_team_stats"
    /\ last.result = "returned"
    /\ Len(last.batch) = 2
    /\ TeamByTeamId(teams, StrOrEmpty(last.batch[1], "TEAM_ID")) = 0
    /\ TeamByTeamId(teams, StrOrEmpty(last.batch[2], "TEAM_ID")) # 0
    /\ Get(last.batch[2], "GP") = Some("7")
    /\ Len(team_stats) = 1
    /\ team_stats[1].games_played = Some(7)

\* The records of a batch that carry a value (not None) under the key.
RECURSIVE WithValue(_, _)
WithValue(batch, key) ==
    IF batch = <<>> THEN <<>>
    ELSE IF Get(Head(batch), key) # None
         THEN <<Head(batch)>> \o WithValue(Tail(batch), key)
         ELSE WithValue(Tail(batch), key)

\* The records of a batch that carry the key.
RECURSIVE WithKey(_, _)
WithKey(batch, key) ==
    IF batch = <<>> THEN <<>>
    ELSE IF key \in DOMAIN Head(batch)
         THEN <<Head(batch)>> \o WithKey(Tail(batch), key)
         ELSE WithKey(Tail(batch), key)

\* C11: in ingest_teams, ingest_games and ingest_players a record without its
\* external identifier is dropped silently: the invocation ends as it would
\* on the batch without that record, which creates no row for it, raises no
\* error for it, and processes and commits every other record.
C11_MissingIdentifierDropped ==
    [][LET b == last'.batch
           refused == last'.error = "OperationalError"
           as_teams ==
               Finish("ingest_teams", "ok", b, "teams", teams,
                      TeamLoop(teams, NewSession(teams), WithKey(b, "team_id")), refused)
           as_games ==
               Finish("ingest_games", "ok", b, "games", games,
                      GameLoop(games, teams, NewSession(games), WithKey(b, "game_id")), refused)
           as_players ==
               Finish("ingest_players", "ok", b, "players", players,
                      PlayerLoop(players, teams, NewSession(players),
                                 WithValue(WithKey(b, "player_id"), "player_id")), refused)
       IN /\ (last'.op = "ingest_teams" /\ last'.fetched = "ok") =>
                teams' = as_teams.table /\ last'.result = as_teams.last.result
          /\ (last'.op = "ingest_games" /\ last'.fetched = "ok") =>
                games' = as_games.table /\ last'.result = as_games.last.result
          /\ (last'.op = "ingest_players" /\ last'.fetched = "ok") =>
                players' = as_players.table /\ last'.result = as_players.last.result]_vars

\* The elements of a finite set of numbers in ascending order.
RECURSIVE Ascending(_)
Ascending(S) ==
    IF S = {} THEN <<>>
    ELSE LET m == CHOOSE x \in S : \A y \in S : x <= y
         IN <<m>> \o Ascending(S \ {m})

\* The list ret holds, in fetch order, one entry per record of keeps: the
\* position hits[n] of the committed row the record updated, or the position
\* after the before committed rows that its new row took.
C12_Listed(ret, hits, keeps, before) ==
    LET order == Ascending(keeps)
        creates(k) == Cardinality({j \in 1..k : hits[order[j]] = 0})
    IN /\ Len(ret) = Len(order)
       /\ \A k \in 1..Len(order) :
             ret[k] = IF hits[order[k]] # 0 THEN hits[order[k]] ELSE before + creates(k)

\* C12: a successful ingest returns exactly one entry for each record that
\* was updated or created, in fetch order, none for a skipped record, and
\* every returned entity is a row of the store after the call, the one that
\* carries the record's identifier.
C12_ReturnedList ==
    [][last'.result = "returned" =>
        LET b == FixedClientResult(last'.fetched = "failed", last'.batch)
            ret == last'.returned
            all == 1..Len(b)
            team_hits == [n \in all |-> TeamByTeamId(teams, b[n]["team_id"])]
            game_hits == [n \in all |-> GameById(games, b[n]["game_id"])]
            player_hits ==
                [n \in all |-> IF Get(b[n], "player_id") = None THEN 0
                               ELSE PlayerByPlayerId(players, b[n]["player_id"][1])]
            player_keeps ==
                {n \in all : player_hits[n] # 0 \/ create_player_from_data(b[n], teams) # <<>>}
            team_of == [n \in all |-> TeamByTeamId(teams, StrOrEmpty(b[n], "TEAM_ID"))]
            player_of == [n \in all |-> PlayerByPlayerId(players, StrOrEmpty(b[n], "PLAYER_ID"))]
            team_stat_hits ==
                [n \in all |-> IF team_of[n] = 0 THEN 0
                               ELSE StatsOf(team_stats, "team_id", teams[team_of[n]].id,
                                            last'.season, SeasonType)]
            player_stat_hits ==
                [n \in all |-> IF player_of[n] = 0 THEN 0
                               ELSE StatsOf(player_stats, "player_id", players[player_of[n]].id,
                                            last'.season, SeasonType)]
        IN /\ last'.op = "ingest_teams" =>
                /\ C12_Listed(ret, team_hits, all, Len(teams))
                /\ \A k \in 1..Len(ret) : teams'[ret[k]].team_id = Text(b[k]["team_id"])
           /\ last'.op = "ingest_games" =>
                /\ C12_Listed(ret, game_hits, all, Len(games))
                /\ \A k \in 1..Len(ret) : games'[ret[k]].id = b[k]["game_id"]
           /\ last'.op = "ingest_players" =>
                /\ C12_Listed(ret, player_hits, player_keeps, Len(players))
                /\ \A k \in 1..Len(ret) : ret[k] \in 1..Len(players')
           /\ last'.op = "ingest_team_stats" =>
                /\ C12_Listed(ret, team_stat_hits, {n \in all : team_of[n] # 0},
                              Len(team_stats))
                /\ \A k \in 1..Len(ret) :
                      /\ ret[k] \in 1..Len(team_stats')
                      /\ team_stats'[ret[k]].season = last'.season
           /\ last'.op = "ingest_player_stats" =>
                /\ C12_Listed(ret, player_stat_hits, {n \in all : player_of[n] # 0},
                              Len(player_stats))
                /\ \A k \in 1..Len(ret) :
                      /\ ret[k] \in 1..Len(player_stats')
                      /\ player_stats'[ret[k]].season = last'.season]_vars

\* C12 witness: ingest_team_stats returned one entity, the stored row of the
\* second record, for a batch whose first record was skipped.
C12_Witness ==
    /\ last.op = "ingest_team_stats"
    /\ last.result = "returned"
    /\ Len(last.batch) = 2
    /\ TeamByTeamId(teams, StrOrEmpty(last.batch[1], "TEAM_ID")) = 0
    /\ TeamByTeamId(teams, StrOrEmpty(last.batch[2], "TEAM_ID")) # 0
    /\ last.returned = <<Len(team_stats)>>

\* C13: after any sequence of ingest_teams invocations no two persisted Team
\* rows share an abbreviation, and a batch of two teams with distinct
\* identifiers and the abbreviations LAL and BOS ingested into an empty store
\* persists exactly two rows, one per abbreviation.
C13_AbbreviationUnique ==
    [][/\ \A i, j \in 1..Len(teams') : i # j => teams'[i].abbreviation # teams'[j].abbreviation
       /\ LET b == last'.batch
          IN (/\ last'.op = "ingest_teams"
              /\ last'.fetched = "ok"
              /\ last'.error # "OperationalError"
              /\ teams = <<>>
              /\ Len(b) = 2
              /\ \A n \in 1..2 : {"team_id", "abbreviation"} \subseteq DOMAIN b[n]
              /\ Text(b[1]["team_id"]) # Text(b[2]["team_id"])
              /\ {b[1]["abbreviation"], b[2]["abbreviation"]} = {"LAL", "BOS"})
             => /\ last'.result = "returned"
                /\ Len(teams') = 2
                /\ \A n \in 1..2 : teams'[n].abbreviation = b[n]["abbreviation"]]_vars

\* C13 witness: the store holds exactly the LAL row and the BOS row after a
\* returned ingest_teams of a two-record batch.
C13_Witness ==
    /\ last.op = "ingest_teams"
    /\ last.result = "returned"
    /\ Len(last.batch) = 2
    /\ Len(teams) = 2
    /\ {teams[1].abbreviation, teams[2].abbreviation} = {"LAL", "BOS"}

\* C14: a Game created by ingest_games whose home or away abbreviation
\* matches no persisted Team is persisted with that team reference null and
\* the abbreviation text as supplied; a Player created by ingest_players whose
\* team identifier matches no persisted Team is persisted with a null team
\* reference.
C14_UnresolvedReferenceNull ==
    [][last'.result = "returned" =>
        LET b == last'.batch
            unknown(abbr) == \A i \in 1..Len(teams) : teams[i].abbreviation # Upper(abbr)
        IN /\ last'.op = "ingest_games" =>
                \A n \in 1..Len(b) :
                    GameById(games, b[n]["game_id"]) = 0 =>
                        LET row == games'[GameById(games', b[n]["game_id"])]
                        IN /\ unknown(b[n]["home_team_abbr"])
                              => /\ row.home_team_id = None
                                 /\ row.home_team_abbr = b[n]["home_team_abbr"]
                           /\ unknown(b[n]["away_team_abbr"])
                              => /\ row.away_team_id = None
                                 /\ row.away_team_abbr = b[n]["away_team_abbr"]
           /\ last'.op = "ingest_players" =>
                \A n \in 1..Len(b) :
                    (/\ PlayerByPlayerId(players, b[n]["player_id"][1]) = 0
                     /\ "team_id" \in DOMAIN b[n]
                     /\ \A i \in 1..Len(teams) : teams[i].team_id # b[n]["team_id"][1])
                    => LET at == PlayerByPlayerId(players', b[n]["player_id"][1])
                       IN at # 0 /\ players'[at].team_id = None]_vars

\* C14 witness: with a team persisted, the store holds a game whose home
\* abbreviation names no team and a player without a team reference.
C14_Witness ==
    /\ teams # <<>>
    /\ \E i \in 1..Len(games) :
          /\ games[i].home_team_abbr = "SEA"
          /\ games[i].home_team_id = None
    /\ \E i \in 1..Len(players) : players[i].team_id = None
    /\ last.op = "ingest_players"
    /\ last.result = "returned"
    /\ last.batch[1]["team_id"] = <<"2">>

\* C15: when ingest_team_stats or ingest_player_stats updates an existing row,
\* a statistic the record carries with a parseable value is the stored value
\* after the ingest, a supplied 0 included.
C15_ZeroCopiedOnUpdate ==
    [][(last'.result = "returned" /\ Len(last'.batch) = 1 /\ "GP" \in DOMAIN last'.batch[1]
        /\ safe_int(last'.batch[1]["GP"]) # None) =>
        LET rec == last'.batch[1]
            t == TeamByTeamId(teams, StrOrEmpty(rec, "TEAM_ID"))
            q == PlayerByPlayerId(players, StrOrEmpty(rec, "PLAYER_ID"))
        IN /\ (last'.op = "ingest_team_stats" /\ t # 0) =>
                \A i \in 1..Len(team_stats) :
                    (team_stats[i].team_id = Some(teams[t].id)
                     /\ team_stats[i].season = last'.season)
                    => team_stats'[i].games_played = safe_int(rec["GP"])
           /\ (last'.op = "ingest_player_stats" /\ q # 0) =>
                \A i \in 1..Len(player_stats) :
                    (player_stats[i].player_id = Some(players[q].id)
                     /\ player_stats[i].season = last'.season)
                    => player_stats'[i].games_played = safe_int(rec["GP"])]_vars

\* C16: when ingest_player_stats creates the row of a persisted player from a
\* record whose team identifier is absent or matches no persisted Team, the
\* batch commits and the new PlayerSeasonStats row has a null team reference.
C16_NullTeamPersisted ==
    [][(/\ last'.op = "ingest_player_stats"
        /\ last'.fetched = "ok"
        /\ last'.error # "OperationalError"
        /\ Len(last'.batch) = 1
        /\ PlayerByPlayerId(players, StrOrEmpty(last'.batch[1], "PLAYER_ID")) # 0
        /\ player_stats = <<>>
        /\ \A i \in 1..Len(teams) : teams[i].team_id # StrOrEmpty(last'.batch[1], "TEAM_ID"))
       => /\ last'.result = "returned"
          /\ Len(player_stats') = 1
          /\ player_stats'[1].team_id = None]_vars

C18_RateLimitBeforeEveryAttempt ==
    Cardinality({k \in 1..Len(fetch.slept) :
                    fetch.slept[k] = Sleep("rate_limit", 1)}) = fetch.attempt

\* C19: the backoff slept after the k-th failed attempt (1 <= k < max_retries)
\* before the next attempt is k times the backoff of a first failed attempt of
\* the same failure kind: k units of rate_limit_sleep_seconds, 2 k units after
\* a timeout in NBAAPIClient._get.
C19_LinearBackoff ==
    LET IsBackoff(x) == x.kind = "backoff"
        backoffs == SelectSeq(fetch.slept, IsBackoff)
        first(k) == IF fetch.client = "NBAAPIClient" /\ fetch.responses[k] = "Timeout"
                    THEN 2 ELSE 1
    IN /\ fetch.outcome = "running" => Len(backoffs) = fetch.attempt
       /\ \A k \in 1..Len(backoffs) : k < fetch.max_retries => backoffs[k].units = k * first(k)

\* C19 witness: a call with MaxRetries attempts allowed has backed off after
\* three failed attempts, the second of them a timeout of NBAAPIClient._get.
C19_Witness ==
    /\ fetch.client = "NBAAPIClient"
    /\ fetch.max_retries = MaxRetries
    /\ fetch.outcome = "running"
    /\ fetch.attempt = 3
    /\ fetch.responses[2] = "Timeout"
    /\ fetch.slept = <<Sleep("backoff", 1), Sleep("backoff", 4), Sleep("backoff", 3)>>

\* C20: a numeric source value that is missing is absent (None) in the
\* normalized record and in the stored row, never 0: when ingest_games
\* returned for the records get_games built from scoreboard rows, a row whose
\* HOME_TEAM_SCORE or VISITOR_TEAM_SCORE is missing gave None for that score,
\* in the record and in the Game created from it.
C20_MissingNumberIsNull ==
    [][(last'.op = "ingest_games" /\ last'.result = "returned" /\ games = <<>>) =>
        \A rows \in SeqsUpTo(ScoreboardRowsOver({"1"}, {<<>>} \cup Present(Scores),
                                                {<<>>} \cup Present(Scores)), MaxBatch) :
            get_games(rows) = last'.batch =>
                \A n \in 1..Len(rows) :
                    /\ rows[n].HOME_TEAM_SCORE = None
                       => /\ last'.batch[n]["home_score"] = None
                          /\ games'[last'.returned[n]].home_score = None
                    /\ rows[n].VISITOR_TEAM_SCORE = None
                       => /\ last'.batch[n]["away_score"] = None
                          /\ games'[last'.returned[n]].away_score = None]_vars

\* C21: a Player created or updated by ingest_players from a record with full
\* name s has as first_name the first whitespace-delimited token of s and as
\* last_name the remainder after it, the empty string when there is none,
\* whatever spaces s has (several, leading) or lacks.
C21_NameSplit ==
    [][(/\ last'.op = "ingest_players"
        /\ last'.result = "returned"
        /\ Len(last'.batch) = 1
        /\ \E k \in 1..Len(last'.batch[1]["name"][1]) : last'.batch[1]["name"][1][k] # " ") =>
        LET name == last'.batch[1]["name"][1]
            start == CHOOSE k \in 1..Len(name) :
                        name[k] # " " /\ \A j \in 1..(k - 1) : name[j] = " "
            stop == IF \E k \in start..Len(name) : name[k] = " "
                    THEN CHOOSE k \in start..Len(name) :
                            name[k] = " " /\ \A j \in start..(k - 1) : name[j] # " "
                    ELSE Len(name) + 1
            row == players'[last'.returned[1]]
        IN /\ row.first_name = SubSeq(name, start, stop - 1)
           /\ row.last_name = SubSeq(name, stop + 1, Len(name))]_vars

\* How many times call x occurs in the calls of the last invocation.
Times(x) == Cardinality({k \in 1..Len(last.calls) : last.calls[k] = x})

\* The errors a commit raises.
CommitErrors == {"IntegrityError", "StatementError", "OperationalError"}

Ingests ==
    {"ingest_teams", "ingest_players", "ingest_games", "ingest_team_stats", "ingest_player_stats"}

\* C22: each ingest invocation issues at most one commit, and only after the
\* loop has processed every record of the batch; one that returns issued one
\* commit and no rollback; one that fails issued exactly one rollback, after
\* no commit when the fetch or a record failed, after its one commit when the
\* commit itself was refused.
C22_OneCommitAfterTheBatch ==
    last.op \in Ingests =>
        /\ Times("commit") <= 1
        /\ Times("commit") = 1 => last.processed = Len(last.batch) /\ last.calls[1] = "commit"
        /\ last.result = "returned" => Times("commit") = 1 /\ Times("rollback") = 0
        /\ last.result = "raised" =>
              /\ Times("rollback") = 1
              /\ Times("commit") = 1 <=> last.error \in CommitErrors
              /\ Times("commit") = 1 => last.calls[2] = "rollback"

\* C22 witness: an ingest processed both records of its batch, issued its
\* commit, was refused by the store and rolled back once.
C22_Witness ==
    /\ last.op \in Ingests
    /\ last.result = "raised"
    /\ last.error = "IntegrityError"
    /\ last.processed = 2
    /\ last.calls = <<"commit", "rollback", "raise", "close">>

\* C22 as stated: an invocation that fails issues no commit.
C22_NoCommitOnFailure ==
    (last.op \in Ingests /\ last.result = "raised") =>
        Times("commit") = 0 /\ Times("rollback") = 1

\* The external identifiers of the teams, players and games in tables t, p, g
\* and the (owner, season, season_type) keys of the stats rows in ts, ps.
Identifiers(t, p, g, ts, ps) ==
    [teams |-> {t[i].team_id : i \in 1..Len(t)},
     players |-> {p[i].player_id : i \in 1..Len(p)},
     games |-> {g[i].id : i \in 1..Len(g)},
     team_stats |-> {<<ts[i].team_id, ts[i].season, ts[i].season_type>> : i \in 1..Len(ts)},
     player_stats |-> {<<ps[i].player_id, ps[i].season, ps[i].season_type>> : i \in 1..Len(ps)}]

\* C23: no ingest deletes a persisted row: over every step the table keeps
\* its rows' identifiers (and stats keys) and does not get shorter, and an
\* invocation that fails leaves the identifiers as they were.
C23_NeverDeletes ==
    [][LET before == Identifiers(teams, players, games, team_stats, player_stats)
           after == Identifiers(teams', players', games', team_stats', player_stats')
       IN /\ \A table \in DOMAIN before : before[table] \subseteq after[table]
          /\ Len(teams') >= Len(teams) /\ Len(players') >= Len(players)
          /\ Len(games') >= Len(games) /\ Len(team_stats') >= Len(team_stats)
          /\ Len(player_stats') >= Len(player_stats)
          /\ last'.result = "raised" => after = before]_vars

\* C23 witness: with a team and its stats row persisted, a later ingest
\* updated the team's row and both are still in the store.
C23_Witness ==
    /\ Len(teams) = 1
    /\ Len(team_stats) >= 1
    /\ last.op = "ingest_teams"
    /\ last.result = "returned"
    /\ last.returned = <<1, 1>>

\* C24: in every retry loop, when attempt k is the first to succeed, exactly
\* k outbound attempts are made and the call returns without an error: a
\* success is the last response of its call, the call has returned, and the
\* only backoffs slept are those after the k - 1 failed attempts before it.
C24_FirstSuccessReturns ==
    LET backoffs == {j \in 1..Len(fetch.slept) : fetch.slept[j].kind = "backoff"}
    IN /\ \A k \in 1..Len(fetch.responses) :
             fetch.responses[k] = "200" => /\ k = Len(fetch.responses)
                                           /\ k = fetch.attempt
                                           /\ k <= fetch.max_retries
                                           /\ fetch.outcome = "returned"
                                           /\ fetch.error = ""
                                           /\ Cardinality(backoffs) = k - 1
       /\ fetch.outcome = "returned" => fetch.responses[fetch.attempt] = "200"

\* C24 witness: NBAAPIClientV3._make_request returned at its third attempt,
\* after a 503 and a timeout.
C24_Witness ==
    /\ fetch.client = "NBAAPIClientV3"
    /\ fetch.outcome = "returned"
    /\ fetch.responses = <<"503", "Timeout", "200">>
    /\ fetch.max_retries = MaxRetries

\* C25: in NBAAPIClient._get a response whose status is neither 200 nor one
\* of 429, 500, 502, 503, 504 ends the call at once: it is the last response,
\* NBAAPIError is raised, and no backoff follows it; every response that was
\* followed by another attempt is one of the listed statuses, a timeout or a
\* request exception.
C25_OtherStatusEndsCall ==
    fetch.client = "NBAAPIClient" =>
        LET listed == {"429", "500", "502", "503", "504"}
            backoffs == {j \in 1..Len(fetch.slept) : fetch.slept[j].kind = "backoff"}
        IN \A k \in 1..Len(fetch.responses) :
              /\ (fetch.responses[k] \in Statuses \ (listed \cup {"200"})) =>
                    /\ k = Len(fetch.responses)
                    /\ fetch.outcome = "raised"
                    /\ fetch.error = "NBAAPIError"
                    /\ Cardinality(backoffs) = k - 1
              /\ k < Len(fetch.responses) => fetch.responses[k] \in listed \cup Exceptions

\* C25 witness: with attempts left, _get raised NBAAPIError at its second
\* attempt, which met a 404 after a 503.
C25_Witness ==
    /\ fetch.client = "NBAAPIClient"
    /\ fetch.max_retries = MaxRetries
    /\ fetch.responses = <<"503", "404">>
    /\ fetch.outcome = "raised"
    /\ fetch.slept = <<Sleep("backoff", 1)>>

\* C26: every persisted TeamStats row references a persisted Team and every
\* persisted PlayerSeasonStats row references a persisted Player, whatever
\* the order in which teams, players and stats were ingested.
C26_StatsOwnerPersisted ==
    /\ \A i \in 1..Len(team_stats) :
          \E t \in 1..Len(teams) : team_stats[i].team_id = Some(teams[t].id)
    /\ \A i \in 1..Len(player_stats) :
          \E q \in 1..Len(players) : player_stats[i].player_id = Some(players[q].id)

\* C26 witness: a TeamStats row and a PlayerSeasonStats row are stored, the
\* last ingest having been a stats ingest that skipped a record whose owner is
\* not in the store.
C26_Witness ==
    /\ team_stats # <<>>
    /\ player_stats # <<>>
    /\ last.op = "ingest_team_stats"
    /\ last.result = "returned"
    /\ \E n \in 1..Len(last.batch) :
          TeamByTeamId(teams, StrOrEmpty(last.batch[n], "TEAM_ID")) = 0

\* C27: the update path of ingest_games leaves id, home_team_id and
\* away_team_id of every existing Game as they were: a Game created with a
\* null team reference keeps it through later ingests of the same game, also
\* once the Team is in the store.
C27_GameReferencesKept ==
    [][last'.op = "ingest_games" =>
        \A i \in 1..Len(games) :
            /\ games'[i].id = games[i].id
            /\ games'[i].home_team_id = games[i].home_team_id
            /\ games'[i].away_team_id = games[i].away_team_id]_vars

\* C27 witness: the team LAL is in the store, and ingest_games has just
\* updated a game of LAL that was created before it and still has no home
\* team reference.
C27_Witness ==
    /\ teams # <<>>
    /\ teams[1].abbreviation = "LAL"
    /\ last.op = "ingest_games"
    /\ last.result = "returned"
    /\ last.returned = <<1>>
    /\ games[1].home_team_abbr = "LAL"
    /\ games[1].home_team_id = None

\* C28: the update path of ingest_players leaves player_id and the team
\* reference of every existing Player (and its key) as they were, whatever the
\* record carries; it changes only name, first_name, last_name, position,
\* weight and is_active.
C28_PlayerIdentityKept ==
    [][last'.op = "ingest_players" =>
        \A i \in 1..Len(players) :
            /\ players'[i].id = players[i].id
            /\ players'[i].player_id = players[i].player_id
            /\ players'[i].team_id = players[i].team_id]_vars

\* C28 witness: ingest_players has updated a player without team reference
\* from a record that names a team which is in the store, and the player
\* still has no team reference.
C28_Witness ==
    /\ last.op = "ingest_players"
    /\ last.result = "returned"
    /\ Len(last.batch) = 1
    /\ Get(last.batch[1], "team_id") # None
    /\ TeamByTeamId(teams, last.batch[1]["team_id"][1]) # 0
    /\ last.returned = <<1>>
    /\ players[1].team_id = None

\* C29: an ingest or query helper closes the session at the end of the
\* invocation, on success and on failure, exactly when it made the session
\* itself; a session supplied by the caller is committed or rolled back by an
\* ingest but not closed; on failure the rollback comes before the re-raise
\* and the close.
C29_ClosesOwnSession ==
    last.op # "none" =>
        LET n == Len(last.calls)
            at(x) == CHOOSE k \in 1..n : last.calls[k] = x
        IN /\ Times("close") = IF last.session = "None" THEN 1 ELSE 0
           /\ last.session = "None" => last.calls[n] = "close"
           /\ last.op \in Ingests => Times("commit") + Times("rollback") >= 1
           /\ last.result = "raised" =>
                 /\ Times("rollback") = 1 /\ Times("raise") = 1
                 /\ at("rollback") < at("raise")
                 /\ last.session = "None" => at("rollback") < at("close")

\* C29 witness: ingest_player_stats, called with its caller's session, had its
\* commit refused, rolled back and re-raised without closing the session.
C29_Witness ==
    /\ last.op = "ingest_player_stats"
    /\ last.session = "supplied"
    /\ last.result = "raised"
    /\ last.calls = <<"commit", "rollback", "raise">>

\* C30: the ingest-historical command processes the years start-year..end-year
\* inclusive in ascending order (only start-year when end-year is not given, no
\* year when end-year < start-year), and within each year runs the selected
\* data types in the fixed order teams, games, players, team_stats,
\* player_stats; the first ingest that raises aborts the command, so no later
\* data type or year is processed.
C30_HistoricalOrder ==
    command.status # "none" =>
        LET start == command.start_year
            years == IF command.end_year = None THEN {start}
                     ELSE {y \in start..command.end_year[1] : TRUE}
            order == <<"teams", "games", "players", "team_stats", "player_stats">>
            rank(t) == CHOOSE i \in 1..5 : order[i] = t
            due == {c \in years \X command.data_types : TRUE}
            before(c, d) == c[1] < d[1] \/ (c[1] = d[1] /\ rank(c[2]) < rank(d[2]))
            ran == command.ran
        IN  /\ \A k \in 1..Len(ran) :
                  /\ ran[k] \in due
                  /\ \A c \in due : before(c, ran[k]) <=> \E j \in 1..(k - 1) : ran[j] = c
            /\ command.status = "completed" => \A c \in due : \E k \in 1..Len(ran) : ran[k] = c
            /\ command.status = "running" => \E c \in due : \A k \in 1..Len(ran) : ran[k] # c
            /\ command.status = "raised" => ran # <<>>

====
